---- MODULE Spec2Model ----
(***************************************************************************)
(* A model of rsdiff: the rolling checksum (hash.rs), the signature and    *)
(* its index (hash.rs), the sliding window (window.rs), the delta scanner  *)
(* (delta.rs) and the two convenience entry points (lib.rs).               *)
(*                                                                         *)
(* u32 values are pairs <<hi, lo>> of 16-bit halves, so that all the       *)
(* arithmetic is carried out modulo 2^32 exactly as the wrapping_*         *)
(* operations of the source do.  The Blake2b digest of a byte run is       *)
(* modelled by the byte run itself: two digests are equal iff the runs     *)
(* are equal.                                                              *)
(***************************************************************************)
EXTENDS Integers, Sequences, FiniteSets, TLC

VARIABLES
    api,        \* the entry point called: "diff" or "diff_with_block_size"
    block_size, \* the block_size argument (None until diff has computed it)
    bufA,       \* the original buffer (argument a)
    bufB,       \* the modified buffer (argument b)
    signature,  \* Signature {block_size, blocks, buffer, original_buffer_len}
    delta,      \* Delta {sig: IndexedSignature, ops}
    window,     \* Window {front, back, block_size, offset, bytes_read, buffer, pos}
    hasher,     \* RollingHasher {a, b, count}
    ins_buffer, \* Delta::diff: the pending unmatched bytes
    last_matching_block_idx,
    jump_i,     \* Delta::diff: the counter of the block jump `for _ in 0..block_size`
    pc,         \* position: "start", "diff", "loop", "jump", "done", "panic", "hash", "bs",
                \* "new", "sig", "calculated", "indexed", "window_new", "window", "moved"
    fed,        \* every byte rolled into a stand-alone hasher so far, in order
    rolled,     \* how many of them were rolled out again (oldest first)
    probe,      \* {before, byte}: the hasher before insert(byte); remove(byte),
                \* or {before, tail, head}: the window before move_forword and its result,
                \* or {before, buf}: the Delta before its second diff, and the first buffer
    len,        \* the argument of calculate_block_size
    bsize       \* the value calculate_block_size returned, or None

vars == <<api, block_size, bufA, bufB, signature, delta, window, hasher, ins_buffer,
          last_matching_block_idx, jump_i, pc, fed, rolled, probe, len, bsize>>

\* Option::None, and the value of a number that is not computed yet
None == 0 - 1

\* the value of an object (Signature, Delta, Window) that is not constructed yet
Unset == [unset |-> TRUE]

\* ------------------------------------------------------------------------
\* Bounds of the model.
MaxLenA == 4          \* length of the original buffer
MaxLenB == 3          \* length of the modified buffer
MaxBlockSize == 2     \* block sizes given to diff_with_block_size
MaxFed == 4           \* bytes fed to a stand-alone hasher
MaxBufferLen == 1100  \* buffer lengths given to calculate_block_size
MaxCalculate == 2     \* calls of Signature::calculate on one Signature
MaxLiveA == 1         \* length of the original buffer, termination of the scan
MaxLiveB == 3         \* length of the modified buffer, termination of the scan
MaxAgainA == 2        \* length of the original buffer, two diffs on one Delta
MaxAgainB == 1        \* length of each modified buffer, two diffs on one Delta

\* The byte values of the buffers.  Blocks over them collide under weak_hash:
\* <<0, 2>>, <<1, 1>> and <<2, 0>> have one digest.
Byte == {0, 1, 2}

\* The byte values fed to a stand-alone hasher.
HashByte == Byte \cup {255}

RECURSIVE SeqsUpTo(_, _)
SeqsUpTo(S, n) ==
    IF n = 0 THEN {<<>>}
    ELSE LET shorter == SeqsUpTo(S, n - 1)
         IN  shorter \cup {Append(s, x) : s \in {t \in shorter : Len(t) = n - 1}, x \in S}

Max(x, y) == IF x >= y THEN x ELSE y
Min(x, y) == IF x <= y THEN x ELSE y

\* ------------------------------------------------------------------------
\* u32 arithmetic.
Half == 65536

U32(n) == <<(n \div Half) % Half, n % Half>>

Zero32 == <<0, 0>>

\* 0xDEADC0DE
BIAS == <<57005, 49374>>

wrapping_add(x, y) ==
    LET lo == x[2] + y[2]
        hi == x[1] + y[1] + (lo \div Half)
    IN  <<hi % Half, lo % Half>>

wrapping_sub(x, y) ==
    LET lo == x[2] - y[2]
        borrow == IF lo < 0 THEN 1 ELSE 0
        hi == x[1] - y[1] - borrow
    IN  <<(hi + Half) % Half, (lo + Half) % Half>>

\* (x * y) mod 2^16 for 16-bit x, y without leaving 31 bits
MulMod16(x, y) ==
    (((x * (y \div 256)) % 256) * 256 + x * (y % 256)) % Half

wrapping_mul(x, y) ==
    LET p1 == x[2] * (y[2] \div 256)
        p0 == x[2] * (y[2] % 256)
        l  == (p1 % 256) * 256 + (p0 % Half)
        lowhi == (p1 \div 256) + (p0 \div Half) + (l \div Half)
        cross == MulMod16(x[1], y[2]) + MulMod16(x[2], y[1])
    IN  <<(lowhi + cross) % Half, l % Half>>

RECURSIVE BitOr(_, _)
BitOr(x, y) ==
    IF x = 0 THEN y
    ELSE IF y = 0 THEN x
    ELSE (IF x % 2 = 1 \/ y % 2 = 1 THEN 1 ELSE 0) + 2 * BitOr(x \div 2, y \div 2)

\* (x << 16) | y on u32
ShlOr16(x, y) == <<BitOr(x[2], y[1]), y[2]>>

\* ------------------------------------------------------------------------
\* hash.rs: RollingHasher
new_hasher == [a |-> Zero32, b |-> Zero32, count |-> 0]

digest(h) == ShlOr16(h.b, h.a)

\* mutant: b accumulates a before a is updated
insert_stale_a(h, byte) ==
    LET bb == wrapping_add(U32(byte), BIAS)
        a  == wrapping_add(h.a, bb)
        b  == wrapping_add(h.b, h.a)
    IN  [a |-> a, b |-> b, count |-> h.count + 1]

insert(h, byte) ==
    LET bb == wrapping_add(U32(byte), BIAS)
        a  == wrapping_add(h.a, bb)
        b  == wrapping_add(h.b, a)
    IN  [a |-> a, b |-> b, count |-> h.count + 1]

\* mutant: the rolled-out byte is weighted by the count after the removal
remove_count_after(h, byte) ==
    LET bb == wrapping_add(U32(byte), BIAS)
        c  == U32(h.count - 1)
        a  == wrapping_sub(h.a, bb)
        b  == wrapping_sub(h.b, wrapping_mul(c, bb))
    IN  [a |-> a, b |-> b, count |-> h.count - 1]

remove(h, byte) ==
    LET bb == wrapping_add(U32(byte), BIAS)
        c  == U32(h.count)
        a  == wrapping_sub(h.a, bb)
        b  == wrapping_sub(h.b, wrapping_mul(c, bb))
    IN  [a |-> a, b |-> b, count |-> h.count - 1]

\* insert folded over bytes[i .. j], in order (halving keeps the evaluation shallow)
RECURSIVE update_range(_, _, _, _)
update_range(h, bytes, i, j) ==
    IF i > j THEN h
    ELSE IF i = j THEN insert(h, bytes[i])
    ELSE LET mid == (i + j) \div 2
             h1 == update_range(h, bytes, i, mid)
         IN  IF h1.count > h.count THEN update_range(h1, bytes, mid + 1, j) ELSE h1

update(h, bytes) == update_range(h, bytes, 1, Len(bytes))

weak_hash(bytes) == digest(update(new_hasher, bytes))

\* ------------------------------------------------------------------------
\* hash.rs: Signature, IndexedSignature, calculate_block_size

\* Blake2b, first 32 bytes: injective on the byte runs of the model
CryptoHash(bytes) == bytes

\* floor(sqrt(n)), the value of `(len as f64).sqrt() as usize`
isqrt(n) == CHOOSE r \in 0 .. n : r * r <= n /\ (r + 1) * (r + 1) > n

\* mutant: the threshold is exclusive
calculate_block_size_lt(n) ==
    IF n < 32 * 32 THEN 32
    ELSE (isqrt(n) \div 128) * 128

calculate_block_size(n) ==
    IF n <= 32 * 32 THEN 32
    ELSE (isqrt(n) \div 128) * 128

\* Signature::with_block_size, once its assertion has passed
with_block_size(bs, buffer) ==
    [block_size |-> bs, blocks |-> <<>>, buffer |-> buffer,
     original_buffer_len |-> Len(buffer)]

\* slice::chunks
chunks(buf, bs) ==
    [i \in 1 .. (Len(buf) + bs - 1) \div bs |->
        SubSeq(buf, (i - 1) * bs + 1, Min(i * bs, Len(buf)))]

BlockHash(chunk) == [weak_hash |-> weak_hash(chunk), crypto_hash |-> CryptoHash(chunk)]

calculate(s) ==
    LET cs == chunks(s.buffer, s.block_size)
    IN  [s EXCEPT !.blocks = @ \o [i \in 1 .. Len(cs) |-> BlockHash(cs[i])]]

\* mutant: an occupied key keeps its first value (HashMap::entry().or_insert)
HashMapInsert_keep_first(m, k, v) ==
    [x \in (DOMAIN m) \cup {k} |-> IF x \in DOMAIN m THEN m[x] ELSE v]

\* HashMap::insert
HashMapInsert(m, k, v) == [x \in (DOMAIN m) \cup {k} |-> IF x = k THEN v ELSE m[x]]

EmptyMap == [x \in {} |-> None]

\* blocks[i .. j] inserted into the map m, in order
RECURSIVE index_blocks(_, _, _, _)
index_blocks(blocks, i, j, m) ==
    IF i > j THEN m
    ELSE IF i = j
         THEN HashMapInsert(m, blocks[i].weak_hash, [idx |-> i - 1, block |-> blocks[i]])
    ELSE LET mid == (i + j) \div 2
             m1 == index_blocks(blocks, i, mid, m)
         IN  IF DOMAIN m1 # {} THEN index_blocks(blocks, mid + 1, j, m1) ELSE m1

to_indexed(s) ==
    [block_size |-> s.block_size,
     blocks |-> index_blocks(s.blocks, 1, Len(s.blocks), EmptyMap),
     original_buffer_len |-> s.original_buffer_len]

\* ------------------------------------------------------------------------
\* window.rs

\* io::Cursor::read into a buffer of n bytes
read(buffer, pos, n) == SubSeq(buffer, pos + 1, Min(pos + n, Len(buffer)))

Window_new(buffer, bs) ==
    LET front == read(buffer, 0, bs)
        back  == read(buffer, Len(front), bs)
    IN  [front |-> front, back |-> back, block_size |-> bs, offset |-> 0,
         bytes_read |-> 0, buffer |-> buffer, pos |-> Len(front) + Len(back)]

\* mutant: the rotation keeps the read offset
read_next_keep_offset(w) ==
    LET back == read(w.buffer, w.pos, w.block_size)
    IN  [w EXCEPT !.front = w.back, !.back = back, !.pos = @ + Len(back)]

read_next(w) ==
    LET back == read(w.buffer, w.pos, w.block_size)
    IN  [w EXCEPT !.front = w.back, !.back = back, !.pos = @ + Len(back), !.offset = 0]

head(w) ==
    LET head_idx == w.offset + w.block_size - Len(w.front)
    IN  IF head_idx >= Len(w.back) THEN None ELSE w.back[head_idx + 1]

\* mutant: the tail is always the first byte of front
tail_at_start(w) == IF w.front # <<>> THEN w.front[1] ELSE None

tail(w) == IF w.offset < Len(w.front) THEN w.front[w.offset + 1] ELSE None

\* mutant: the byte handed out is not counted in bytes_read
move_forword_no_count(w) ==
    IF w.front = <<>> THEN [window |-> w, tail |-> None, head |-> None]
    ELSE IF w.offset >= Len(w.front) /\ w.back = <<>>
         THEN [window |-> w, tail |-> None, head |-> None]
    ELSE LET w1 == IF w.offset >= Len(w.front) THEN read_next(w) ELSE w
         IN  [window |-> [w1 EXCEPT !.offset = @ + 1],
              tail |-> tail(w1), head |-> head(w1)]

\* mutant: no early return when back is empty at the end of front
move_forword_no_return(w) ==
    IF w.front = <<>> THEN [window |-> w, tail |-> None, head |-> None]
    ELSE LET w1 == IF w.offset >= Len(w.front) THEN read_next(w) ELSE w
         IN  [window |-> [w1 EXCEPT !.offset = @ + 1, !.bytes_read = @ + 1],
              tail |-> tail(w1), head |-> head(w1)]

\* returns the window after the call and the (tail, head) pair
move_forword(w) ==
    IF w.front = <<>> THEN [window |-> w, tail |-> None, head |-> None]
    ELSE IF w.offset >= Len(w.front) /\ w.back = <<>>
         THEN [window |-> w, tail |-> None, head |-> None]
    ELSE LET w1 == IF w.offset >= Len(w.front) THEN read_next(w) ELSE w
         IN  [window |-> [w1 EXCEPT !.offset = @ + 1, !.bytes_read = @ + 1],
              tail |-> tail(w1), head |-> head(w1)]

frame(w) ==
    LET front_offset == Min(w.offset, Len(w.front))
        back_offset  == Min(w.offset, Len(w.back))
    IN  <<SubSeq(w.front, front_offset + 1, Len(w.front)), SubSeq(w.back, 1, back_offset)>>

frame_size(w) == Len(w.front) + Len(w.back) - w.offset

\* mutant: an empty frame still counts as a frame
has_frame_or_empty(w) == frame_size(w) >= 0

has_frame(w) == frame_size(w) > 0

on_boundry(w) == w.offset = 0 \/ w.offset = Len(w.front)

\* ------------------------------------------------------------------------
\* delta.rs

Insert(offset, buffer) == [kind |-> "Insert", offset |-> offset, buffer |-> buffer]
Remove(offset, n) == [kind |-> "Remove", offset |-> offset, len |-> n]

Delta_new(sig) == [sig |-> sig, ops |-> <<>>]

\* mutant: the Insert is placed where the unmatched run ends
add_insert_op_at_end(d, offset, buffer) ==
    [d EXCEPT !.ops = Append(@, Insert(offset + Len(buffer), buffer))]

add_insert_op(d, offset, buffer) == [d EXCEPT !.ops = Append(@, Insert(offset, buffer))]

add_remove_op(d, offset, n) == [d EXCEPT !.ops = Append(@, Remove(offset, n))]

\* mutant: a weak-hash hit is taken for a match without the strong-hash comparison
find_match_weak_only(d, wh, w, last) ==
    IF wh \in DOMAIN d.sig.blocks
    THEN LET e == d.sig.blocks[wh]
         IN  IF e.idx > last THEN e.idx ELSE None
    ELSE None

\* mutant: the ordinal of the candidate is not compared with the last match
find_match_any_order(d, wh, w, last) ==
    IF wh \in DOMAIN d.sig.blocks
    THEN LET e == d.sig.blocks[wh]
             fr == frame(w)
             crypto_hash == CryptoHash(fr[1] \o fr[2])
             crypto_match == e.block.crypto_hash = crypto_hash
         IN  IF crypto_match THEN e.idx ELSE None
    ELSE None

find_match(d, wh, w, last) ==
    IF wh \in DOMAIN d.sig.blocks
    THEN LET e == d.sig.blocks[wh]
             fr == frame(w)
             crypto_hash == CryptoHash(fr[1] \o fr[2])
             crypto_match == e.block.crypto_hash = crypto_hash
             new_idx == e.idx > last
         IN  IF crypto_match /\ new_idx THEN e.idx ELSE None
    ELSE None

\* mutant: the byte that left the window is not rolled out
roll_keep_tail(h, tl, hd) == IF hd # None THEN insert(h, hd) ELSE h

\* the hasher after rolling out the tail and rolling in the head
roll(h, tl, hd) ==
    LET h1 == IF tl # None THEN remove(h, tl) ELSE h
    IN  IF hd # None THEN insert(h1, hd) ELSE h1

\* mutant: the gap Remove is appended before the Insert of the pending bytes
emit_on_match_remove_first(d, w, ins, last, idx) ==
    LET d1 == IF idx > last + 1
              THEN add_remove_op(d, w.bytes_read, w.block_size * (idx - last - 1))
              ELSE d
    IN  IF ins # <<>>
        THEN add_insert_op(d1, w.bytes_read - Len(ins), ins)
        ELSE d1

\* mutant: the gap Remove takes one block whatever the number of skipped blocks
emit_on_match_one_block(d, w, ins, last, idx) ==
    LET d1 == IF ins # <<>>
              THEN add_insert_op(d, w.bytes_read - Len(ins), ins)
              ELSE d
    IN  IF idx > last + 1
        THEN add_remove_op(d1, w.bytes_read, w.block_size)
        ELSE d1

\* mutant: the gap Remove is placed at the matched block's position in A
emit_on_match_offset_in_a(d, w, ins, last, idx) ==
    LET d1 == IF ins # <<>>
              THEN add_insert_op(d, w.bytes_read - Len(ins), ins)
              ELSE d
    IN  IF idx > last + 1
        THEN add_remove_op(d1, idx * w.block_size, w.block_size * (idx - last - 1))
        ELSE d1

\* Delta::diff, the emissions of the match branch
emit_on_match(d, w, ins, last, idx) ==
    LET d1 == IF ins # <<>>
              THEN add_insert_op(d, w.bytes_read - Len(ins), ins)
              ELSE d
    IN  IF idx > last + 1
        THEN add_remove_op(d1, w.bytes_read, w.block_size * (idx - last - 1))
        ELSE d1

\* mutant: the final Remove takes the whole of A, matched blocks included
emit_after_loop_remove_all(d, w, ins, last) ==
    LET d1 == IF ins # <<>>
              THEN add_insert_op(d, w.bytes_read - Len(ins), ins)
              ELSE d
        original_block_count ==
            (d.sig.original_buffer_len + d.sig.block_size - 1) \div d.sig.block_size
    IN  IF last + 1 < original_block_count
        THEN add_remove_op(d1, w.bytes_read, d.sig.original_buffer_len)
        ELSE d1

\* mutant: the pending bytes are emitted after the loop without the
\* is_empty test
emit_after_loop_always_insert(d, w, ins, last) ==
    LET d1 == add_insert_op(d, w.bytes_read - Len(ins), ins)
        original_block_count ==
            (d.sig.original_buffer_len + d.sig.block_size - 1) \div d.sig.block_size
    IN  IF last + 1 < original_block_count
        THEN add_remove_op(d1, w.bytes_read,
                           d.sig.original_buffer_len - (last + 1) * d.sig.block_size)
        ELSE d1

\* Delta::diff, the emissions after the loop
emit_after_loop(d, w, ins, last) ==
    LET d1 == IF ins # <<>>
              THEN add_insert_op(d, w.bytes_read - Len(ins), ins)
              ELSE d
        original_block_count ==
            (d.sig.original_buffer_len + d.sig.block_size - 1) \div d.sig.block_size
    IN  IF last + 1 < original_block_count
        THEN add_remove_op(d1, w.bytes_read,
                           d.sig.original_buffer_len - (last + 1) * d.sig.block_size)
        ELSE d1

\* ------------------------------------------------------------------------
\* The inputs.
Zeros(n) == [i \in 1 .. n |-> 0]

SmallA == SeqsUpTo(Byte, MaxLenA)
SmallB == SeqsUpTo(Byte, MaxLenB)

\* buffers around the two thresholds of calculate_block_size
LargeInputs ==
    {<<Zeros(32 * 32), <<>>>>, <<Zeros(32 * 32 + 1), <<>>>>, <<<<>>, Zeros(32 * 32 + 1)>>,
     <<Zeros(128 * 128), <<>>>>}

Idle ==
    /\ signature = Unset /\ delta = Unset /\ window = Unset
    /\ hasher = new_hasher /\ ins_buffer = <<>> /\ last_matching_block_idx = None
    /\ jump_i = 0

NoHashRun == fed = <<>> /\ rolled = 0 /\ probe = Unset
NoSizeRun == len = 0 /\ bsize = None

Init ==
    /\ pc = "start"
    /\ \/ /\ api = "diff_with_block_size"
          /\ block_size \in 0 .. MaxBlockSize
          /\ bufA \in SmallA /\ bufB \in SmallB
       \/ /\ api = "diff"
          /\ block_size = None
          /\ \/ bufA \in SmallA /\ bufB \in SmallB
             \/ \E p \in LargeInputs : bufA = p[1] /\ bufB = p[2]
    /\ Idle /\ NoHashRun /\ NoSizeRun

\* ------------------------------------------------------------------------
\* lib.rs: the two entry points, up to Delta::new

\* build with the assertion of with_block_size left out: a zero block size
\* reaches Delta::new with an empty block list
build_no_assert(bs) ==
    LET s0 == with_block_size(bs, bufA)
        s  == IF bs = 0 THEN s0 ELSE calculate(s0)
    IN  /\ signature' = s
        /\ delta' = Delta_new(to_indexed(s))
        /\ pc' = "diff"

\* the body of diff_with_block_size before delta.diff(b)
build(bs) ==
    IF bs = 0
    THEN /\ pc' = "panic"      \* assert!(block_size != 0)
         /\ UNCHANGED <<signature, delta>>
    ELSE \E s \in {calculate(with_block_size(bs, bufA))} :
             /\ pc' = "diff"
             /\ signature' = s
             /\ delta' = Delta_new(to_indexed(s))

lib_diff_with_block_size ==
    /\ pc = "start" /\ api = "diff_with_block_size"
    /\ build(block_size)
    /\ UNCHANGED <<api, block_size, bufA, bufB, window, hasher, ins_buffer,
                   last_matching_block_idx, jump_i, fed, rolled, probe, len, bsize>>

lib_diff ==
    /\ pc = "start" /\ api = "diff"
    /\ block_size' = calculate_block_size(Max(Len(bufA), Len(bufB)))
    /\ build(block_size')
    /\ UNCHANGED <<api, bufA, bufB, window, hasher, ins_buffer,
                   last_matching_block_idx, jump_i, fed, rolled, probe, len, bsize>>

\* ------------------------------------------------------------------------
\* delta.rs: Delta::diff, one action per position

\* mutant: diff starts from an empty list of operations
diff_begin_clear ==
    /\ pc = "diff"
    /\ pc' = "loop"
    /\ window' = Window_new(bufB, delta.sig.block_size)
    /\ hasher' = update(new_hasher, frame(window')[1])
    /\ ins_buffer' = <<>>
    /\ last_matching_block_idx' = 0 - 1
    /\ delta' = [delta EXCEPT !.ops = <<>>]
    /\ UNCHANGED <<api, block_size, bufA, bufB, signature, jump_i,
                   fed, rolled, probe, len, bsize>>

\* lines 140-150: the window, the hasher primed with the front frame
diff_begin ==
    /\ pc = "diff"
    /\ pc' = "loop"
    /\ window' = Window_new(bufB, delta.sig.block_size)
    /\ hasher' = update(new_hasher, frame(window')[1])
    /\ ins_buffer' = <<>>
    /\ last_matching_block_idx' = 0 - 1
    /\ UNCHANGED <<api, block_size, bufA, bufB, signature, delta, jump_i,
                   fed, rolled, probe, len, bsize>>

\* lines 155-179: a match, its emissions, and the entry of the block jump
diff_match ==
    /\ pc = "loop" /\ has_frame(window)
    /\ \E block_idx \in {find_match(delta, digest(hasher), window, last_matching_block_idx)} :
           /\ block_idx # None
           /\ delta' = emit_on_match(delta, window, ins_buffer,
                                      last_matching_block_idx, block_idx)
           /\ last_matching_block_idx' = block_idx
    /\ ins_buffer' = <<>>
    /\ jump_i' = 0
    /\ pc' = "jump"
    /\ UNCHANGED <<api, block_size, bufA, bufB, signature, window, hasher,
                   fed, rolled, probe, len, bsize>>

\* the block jump is over: 0..block_size is exhausted, or the `break`
jump_over(w, i) == i >= w.block_size \/ (on_boundry(w) /\ frame_size(w) = 0)

\* lines 180-197: one iteration of the block jump
diff_jump ==
    /\ pc = "jump" /\ ~jump_over(window, jump_i)
    /\ \E m \in {move_forword(window)} :
           /\ window' = m.window
           /\ hasher' = roll(hasher, m.tail, m.head)
    /\ jump_i' = jump_i + 1
    /\ pc' = IF jump_over(window', jump_i') THEN "loop" ELSE "jump"
    /\ UNCHANGED <<api, block_size, bufA, bufB, signature, delta, ins_buffer,
                   last_matching_block_idx, fed, rolled, probe, len, bsize>>

\* lines 202-216: no match, the window moves one byte
diff_no_match ==
    /\ pc = "loop" /\ has_frame(window)
    /\ find_match(delta, digest(hasher), window, last_matching_block_idx) = None
    /\ \E m \in {move_forword(window)} :
           /\ window' = m.window
           /\ hasher' = roll(hasher, m.tail, m.head)
           /\ ins_buffer' = IF m.tail # None THEN Append(ins_buffer, m.tail) ELSE ins_buffer
    /\ UNCHANGED <<api, block_size, bufA, bufB, signature, delta,
                   last_matching_block_idx, jump_i, pc, fed, rolled, probe, len, bsize>>

\* lines 219-238: the loop has ended
diff_end ==
    /\ pc = "loop" /\ ~has_frame(window)
    /\ delta' = emit_after_loop(delta, window, ins_buffer, last_matching_block_idx)
    /\ pc' = "done"
    /\ UNCHANGED <<api, block_size, bufA, bufB, signature, window, hasher, ins_buffer,
                   last_matching_block_idx, jump_i, fed, rolled, probe, len, bsize>>

Next ==
    \/ lib_diff_with_block_size
    \/ lib_diff
    \/ diff_begin
    \/ diff_match
    \/ diff_jump
    \/ diff_no_match
    \/ diff_end

Spec == Init /\ [][Next]_vars

\* The whole of diff_with_block_size as a function of its arguments: the script it
\* returns (the block jump and the scan loop of Delta::diff unrolled by recursion).
RECURSIVE jump(_, _, _)
jump(w, h, i) ==
    IF jump_over(w, i) THEN [window |-> w, hasher |-> h]
    ELSE LET m == move_forword(w)
         IN  jump(m.window, roll(h, m.tail, m.head), i + 1)

RECURSIVE scan(_, _, _, _, _)
scan(d, w, h, ins, last) ==
    IF ~has_frame(w) THEN emit_after_loop(d, w, ins, last)
    ELSE LET block_idx == find_match(d, digest(h), w, last)
         IN  IF block_idx # None
             THEN LET j == jump(w, h, 0)
                  IN  scan(emit_on_match(d, w, ins, last, block_idx),
                           j.window, j.hasher, <<>>, block_idx)
             ELSE LET m == move_forword(w)
                  IN  scan(d, m.window, roll(h, m.tail, m.head),
                           IF m.tail # None THEN Append(ins, m.tail) ELSE ins, last)

\* defined for bs > 0 (bs = 0 panics)
diff_with_block_size(bs, a, b) ==
    LET d == Delta_new(to_indexed(calculate(with_block_size(bs, a))))
        w == Window_new(b, bs)
    IN  scan(d, w, update(new_hasher, frame(w)[1]), <<>>, 0 - 1).ops

\* ------------------------------------------------------------------------
\* A stand-alone RollingHasher: bytes are rolled in, and rolled out oldest first.

\* the byte runs of the unit tests of hash.rs: "Wikipedia", "shekohex"
TestVectors ==
    {<<87, 105, 107, 105, 112, 101, 100, 105, 97>>,
     <<115, 104, 101, 107, 111, 104, 101, 120>>}

NoDiffRun ==
    /\ api = "none" /\ block_size = None /\ bufA = <<>> /\ bufB = <<>>
    /\ Idle

InitHash ==
    /\ pc = "hash"
    /\ NoDiffRun /\ NoHashRun /\ NoSizeRun

diffVars == <<api, block_size, bufA, bufB, signature, delta, window, ins_buffer,
              last_matching_block_idx, jump_i>>

hash_insert ==
    /\ pc = "hash" /\ Len(fed) < MaxFed
    /\ \E byte \in HashByte :
          /\ hasher' = insert(hasher, byte)
          /\ fed' = Append(fed, byte)
    /\ UNCHANGED <<diffVars, pc, rolled, probe, len, bsize>>

hash_update ==
    /\ pc = "hash" /\ fed = <<>>
    /\ \E bytes \in TestVectors :
          /\ hasher' = update(hasher, bytes)
          /\ fed' = bytes
    /\ UNCHANGED <<diffVars, pc, rolled, probe, len, bsize>>

\* the oldest byte of the window is rolled out
hash_remove ==
    /\ pc = "hash" /\ rolled < Len(fed)
    /\ hasher' = remove(hasher, fed[rolled + 1])
    /\ rolled' = rolled + 1
    /\ UNCHANGED <<diffVars, pc, fed, probe, len, bsize>>

\* insert(byte) immediately followed by remove(byte)
hash_insert_remove ==
    /\ pc = "hash"
    /\ \E byte \in HashByte :
          /\ hasher' = remove(insert(hasher, byte), byte)
          /\ probe' = [before |-> hasher, byte |-> byte]
    /\ pc' = "undo"
    /\ UNCHANGED <<diffVars, fed, rolled, len, bsize>>

NextHash == hash_insert \/ hash_update \/ hash_remove \/ hash_insert_remove

SpecHash == InitHash /\ [][NextHash]_vars

\* ------------------------------------------------------------------------
\* calculate_block_size, as Signature::new calls it

InitBlockSize ==
    /\ pc = "bs"
    /\ NoDiffRun /\ NoHashRun
    /\ len \in 0 .. MaxBufferLen
    /\ bsize = None

\* Signature::new up to the assertion of with_block_size
signature_new ==
    /\ pc = "bs"
    /\ bsize' = calculate_block_size(len)
    /\ pc' = IF bsize' = 0 THEN "panic" ELSE "sized"
    /\ UNCHANGED <<diffVars, hasher, fed, rolled, probe, len>>

NextBlockSize == signature_new

SpecBlockSize == InitBlockSize /\ [][NextBlockSize]_vars

\* ------------------------------------------------------------------------
\* Properties.

Done == pc = "done"
Ops == delta.ops

IsPrefix(p, q) == Len(p) <= Len(q) /\ SubSeq(q, 1, Len(p)) = p

\* The reference applier of the edit-script contract: the ops in emission order;
\* before each op, bytes of A are copied from the source position until the output
\* is op.offset long; Insert appends its buffer, Remove advances the source
\* position; the rest of A is copied after the last op.
RECURSIVE ApplyFrom(_, _, _, _, _)
ApplyFrom(ops, i, a, out, sp) ==
    IF i > Len(ops) THEN out \o SubSeq(a, sp + 1, Len(a))
    ELSE LET op == ops[i]
             n == Max(0, Min(op.offset - Len(out), Len(a) - sp))
             copied == out \o SubSeq(a, sp + 1, sp + n)
         IN  IF op.kind = "Insert"
             THEN ApplyFrom(ops, i + 1, a, copied \o op.buffer, sp + n)
             ELSE ApplyFrom(ops, i + 1, a, copied, sp + n + op.len)

Apply(ops, a) == ApplyFrom(ops, 1, a, <<>>, 0)

\* two blocks of A with different contents and one weak hash
CollidingBlocks ==
    \E i, j \in 1 .. Len(signature.blocks) :
        /\ signature.blocks[i].weak_hash = signature.blocks[j].weak_hash
        /\ signature.blocks[i].crypto_hash # signature.blocks[j].crypto_hash

\* C1: applying the script of a finished diff to A with the reference applier
\* gives exactly B, whatever the blocks of A (colliding or not).
C1_RoundTrip == Done => Apply(Ops, bufA) = bufB

\* a finished diff over an A with colliding blocks, with a non-trivial script
C1_Witness ==
    /\ Done /\ api = "diff_with_block_size"
    /\ CollidingBlocks
    /\ \E i, j \in 1 .. Len(Ops) : Ops[i].kind = "Insert" /\ Ops[j].kind = "Remove"
    /\ last_matching_block_idx >= 0

IsEmptyOp(op) == IF op.kind = "Insert" THEN op.buffer = <<>> ELSE op.len = 0

\* C2: diff_with_block_size(block_size, A, A) returns the empty list or a list of
\* empty operations only.
C2_EmptyEdit ==
    (Done /\ api = "diff_with_block_size" /\ bufA = bufB)
        => \A i \in 1 .. Len(Ops) : IsEmptyOp(Ops[i])

\* C3: when |A| is a multiple of block_size and B = A ++ T, the script is the single
\* operation Insert{|A|, T} (nothing to insert when T is empty), without any Remove.
C3_InsertOnly ==
    (/\ Done /\ api = "diff_with_block_size"
     /\ Len(bufA) % block_size = 0
     /\ IsPrefix(bufA, bufB))
        => LET t == SubSeq(bufB, Len(bufA) + 1, Len(bufB))
           IN  Ops = IF t = <<>> THEN <<>> ELSE <<Insert(Len(bufA), t)>>

\* C4: when B = A[.. k * block_size], the script is the single operation
\* Remove{|B|, |A| - |B|}, or is empty when B is all of A.
C4_RemoveOnly ==
    (/\ Done /\ api = "diff_with_block_size"
     /\ Len(bufB) % block_size = 0
     /\ IsPrefix(bufB, bufA))
        => Ops = IF Len(bufB) = Len(bufA) THEN <<>>
                 ELSE <<Remove(Len(bufB), Len(bufA) - Len(bufB))>>

OpsOfKind(k) == {i \in 1 .. Len(Ops) : Ops[i].kind = k}

Monotone(k) ==
    \A i, j \in OpsOfKind(k) : i < j => Ops[i].offset <= Ops[j].offset

\* C5: in the script, in emission order, the offsets of the Inserts are
\* non-decreasing and so are the offsets of the Removes (at every point of the diff).
C5_OffsetMonotone ==
    pc \in {"loop", "jump", "done"} => Monotone("Insert") /\ Monotone("Remove")

\* a finished script with two Inserts and two Removes
C5_Witness ==
    /\ Done
    /\ Cardinality(OpsOfKind("Insert")) >= 2
    /\ Cardinality(OpsOfKind("Remove")) >= 2

\* ------------------------------------------------------------------------
\* Properties of the stand-alone hasher (SpecHash).

\* the bytes currently in the window
Win == SubSeq(fed, rolled + 1, Len(fed))

\* C6: after any sequence of insert and remove-the-oldest, the hasher counts the
\* bytes of the window and its digest is weak_hash of the window.
C6_RollingEqualsScratch ==
    pc = "hash" => hasher.count = Len(Win) /\ digest(hasher) = weak_hash(Win)

\* bytes were rolled out of a window that still holds bytes
C6_Witness ==
    /\ pc = "hash" /\ rolled >= 2 /\ Len(Win) >= 2

\* a: the sum of (byte + 0xDEADC0DE) over s[1 .. n], modulo 2^32
RECURSIVE SumA(_, _)
SumA(s, n) ==
    IF n = 0 THEN Zero32
    ELSE wrapping_add(SumA(s, n - 1), wrapping_add(U32(s[n]), BIAS))

\* b: the sum of the running values of a, modulo 2^32
RECURSIVE SumB(_, _)
SumB(s, n) ==
    IF n = 0 THEN Zero32
    ELSE wrapping_add(SumB(s, n - 1), SumA(s, n))

Bit(x, i) == (x \div (2 ^ i)) % 2

\* ((hb << 16) | ha) truncated to 32 bits, bit by bit
FromBits(f) ==
    LET RECURSIVE val(_)
        val(i) == IF i = 16 THEN 0 ELSE f[i] * (2 ^ i) + val(i + 1)
    IN  val(0)

Pattern(a, b) ==
    <<FromBits([i \in 0 .. 15 |-> IF Bit(a[1], i) = 1 \/ Bit(b[2], i) = 1 THEN 1 ELSE 0]),
      a[2]>>

\* C7: the digest of a hasher fed s is ((b << 16) | a) for the sums a and b over s;
\* the digests of [], [0], [1] and "Wikipedia" are the documented ones.
C7_BitPattern ==
    (pc = "hash" /\ rolled = 0) =>
        /\ digest(hasher) = Pattern(SumA(fed, Len(fed)), SumB(fed, Len(fed)))
        /\ fed = <<>> => digest(hasher) = Zero32
        /\ fed = <<0>> => digest(hasher) = Pattern(BIAS, BIAS)
        /\ fed = <<0>> => digest(hasher) = <<57087, 49374>>
        /\ fed = <<1>> => digest(hasher) = <<57087, 49375>>
        /\ fed = <<87, 105, 107, 105, 112, 101, 100, 105, 97>>
               => digest(hasher) = <<64763, 52069>>

\* the hasher was fed "Wikipedia"
C7_Witness ==
    pc = "hash" /\ rolled = 0 /\ fed = <<87, 105, 107, 105, 112, 101, 100, 105, 97>>

\* C8 as stated: insert(t); remove(t) leaves (a, b, count) as they were, from every
\* state reached by inserts.
C8_RestoresState ==
    (pc = "undo" /\ rolled = 0) => hasher = probe.before

\* C8 amended: a and count are restored from every state; b is restored exactly when
\* a = count * (t + 0xDEADC0DE) held before the insert (so from the empty state).
C8_RestoresWhenOldest ==
    (pc = "undo" /\ rolled = 0) =>
        LET h == probe.before
            bb == wrapping_add(U32(probe.byte), BIAS)
        IN  /\ hasher.a = h.a
            /\ hasher.count = h.count
            /\ hasher.b = h.b <=> h.a = wrapping_mul(U32(h.count), bb)
            /\ h.count = 0 => hasher = h

\* insert(t); remove(t) on a hasher that held bytes, all equal to t
C8_Witness ==
    /\ pc = "undo" /\ rolled = 0 /\ probe.before.count >= 2
    /\ \A i \in 1 .. Len(fed) : fed[i] = probe.byte
    /\ hasher = probe.before

\* ------------------------------------------------------------------------
\* Properties of the block size.

\* C9: calculate_block_size never returns less than 32, so Signature::new never
\* trips the assertion of with_block_size.
C9_MinBlockSize ==
    pc \in {"sized", "panic"} => bsize >= 32 /\ pc # "panic"

\* the largest multiple of 128 that is at most sqrt(n)
SqrtRoundedTo128(n) ==
    LET ms == {128 * k : k \in 0 .. (n \div 128)}
    IN  CHOOSE m \in ms : m * m <= n /\ \A m2 \in ms : m2 * m2 <= n => m2 <= m

ConvenienceBlockSize(n) == IF n <= 1024 THEN 32 ELSE SqrtRoundedTo128(n)

Built == pc \in {"diff", "loop", "jump", "done"}

\* the block size handed to Signature::with_block_size, once it is known
Requested == pc # "start" /\ block_size # None

\* C11: with_block_size(0, buffer) panics and constructs no Signature (and no
\* Delta); every Signature and IndexedSignature that exists has
\* block_size >= 1, so no position of diff divides by a zero block size.
C11_ZeroRejected ==
    /\ (Requested /\ block_size = 0) => pc = "panic"
    /\ pc = "panic" => (signature = Unset /\ delta = Unset)
    /\ Built => /\ signature.block_size >= 1
                /\ delta.sig.block_size >= 1
                /\ signature.block_size = block_size

C11_Witness ==
    /\ pc = "panic" /\ api = "diff_with_block_size"
    /\ block_size = 0 /\ bufA # <<>> /\ bufB # <<>>


\* ------------------------------------------------------------------------
\* The public API of Signature on its own (hash.rs): with_block_size, then
\* calculate and to_indexed in any order and any number of times.
\*   pc = "new"         nothing constructed yet
\*   pc = "sig"         with_block_size has returned, calculate was not called
\*   pc = "calculated"  the last call was calculate
\*   pc = "indexed"     the last call was to_indexed, delta.sig is its result

InitSig ==
    /\ pc = "new"
    /\ api = "none" /\ bufB = <<>>
    /\ block_size \in 0 .. MaxBlockSize
    /\ bufA \in SmallA
    /\ Idle /\ NoHashRun /\ NoSizeRun

sigVars == <<api, block_size, bufA, bufB, window, hasher, ins_buffer,
             last_matching_block_idx, jump_i, fed, rolled, probe, len, bsize>>

\* the number of chunks of the buffer of s
block_count(s) == (Len(s.buffer) + s.block_size - 1) \div s.block_size

sig_with_block_size ==
    /\ pc = "new"
    /\ IF block_size = 0
       THEN pc' = "panic" /\ UNCHANGED signature
       ELSE signature' = with_block_size(block_size, bufA) /\ pc' = "sig"
    /\ UNCHANGED <<sigVars, delta>>

\* the first call is always taken, further calls up to MaxCalculate
sig_calculate ==
    /\ pc \in {"sig", "calculated", "indexed"}
    /\ pc = "sig" \/ Len(signature.blocks) < MaxCalculate * block_count(signature)
    /\ signature' = calculate(signature)
    /\ pc' = "calculated"
    /\ UNCHANGED <<sigVars, delta>>

sig_to_indexed ==
    /\ pc \in {"sig", "calculated"}
    /\ delta' = Delta_new(to_indexed(signature))
    /\ pc' = "indexed"
    /\ UNCHANGED <<sigVars, signature>>

NextSig ==
    \/ sig_with_block_size
    \/ sig_calculate
    \/ sig_to_indexed

SpecSig == InitSig /\ [][NextSig]_vars

\* ------------------------------------------------------------------------
\* C12: the block list of a calculated Signature

\* calculate has been called on the signature at least once
Calculated ==
    \/ pc = "calculated"
    \/ pc = "indexed" /\ signature.blocks # <<>>

\* exactly one entry per chunk of the buffer, in buffer order
BlockListOfBuffer(s) ==
    LET cs == chunks(s.buffer, s.block_size)
    IN  /\ Len(s.blocks) = block_count(s)
        /\ \A i \in 1 .. Len(s.blocks) : s.blocks[i] = BlockHash(cs[i])

\* C12: once calculate has been called, the block list has exactly
\* ceil(|A| / block_size) entries, entry i being the pair of hashes of the
\* i-th chunk of A, also after any further call of calculate; and every
\* ordinal stored by to_indexed is below ceil(|A| / block_size).
C12_BlockList ==
    /\ Calculated => BlockListOfBuffer(signature)
    /\ (pc = "indexed" /\ Calculated) =>
           \A h \in DOMAIN delta.sig.blocks :
               delta.sig.blocks[h].idx < block_count(signature)


\* ------------------------------------------------------------------------
\* C13: the index is last-write-wins

\* the ordinals (from 0) of the blocks of s with weak hash h
OrdinalsOf(s, h) == {i \in 0 .. Len(s.blocks) - 1 : s.blocks[i + 1].weak_hash = h}

Greatest(S) == CHOOSE x \in S : \A y \in S : y <= x

\* C13: the mapping returned by to_indexed has exactly one entry per distinct
\* weak hash of the block list; the entry of h is (i, block i) for the
\* greatest ordinal i whose weak hash is h; block_size and
\* original_buffer_len are carried over unchanged.
C13_LastWriteWins ==
    pc = "indexed" =>
        LET ix == delta.sig
        IN  /\ DOMAIN ix.blocks =
                 {signature.blocks[i].weak_hash : i \in 1 .. Len(signature.blocks)}
            /\ \A h \in DOMAIN ix.blocks :
                 /\ ix.blocks[h].idx = Greatest(OrdinalsOf(signature, h))
                 /\ ix.blocks[h].block = signature.blocks[ix.blocks[h].idx + 1]
            /\ ix.block_size = signature.block_size
            /\ ix.original_buffer_len = signature.original_buffer_len

\* an index built from a once-calculated block list with two blocks of
\* different contents under one weak hash
C13_Witness ==
    /\ pc = "indexed"
    /\ Len(signature.blocks) = block_count(signature)
    /\ CollidingBlocks


\* ------------------------------------------------------------------------
\* C14: no false match

\* the bytes of the current frame: the front part followed by the back part
FrameBytes(w) == frame(w)[1] \o frame(w)[2]

\* block m (from 0) of the original buffer
BlockOfA(m) == chunks(bufA, delta.sig.block_size)[m + 1]

\* find_match has just reported last_matching_block_idx for the current frame
JustMatched == pc = "jump" /\ jump_i = 0

\* the weak hash of the frame is in the index, with another strong hash
WeakHitOnly ==
    /\ pc = "loop" /\ has_frame(window)
    /\ digest(hasher) \in DOMAIN delta.sig.blocks
    /\ delta.sig.blocks[digest(hasher)].block.crypto_hash # CryptoHash(FrameBytes(window))

\* C14: whenever find_match reports a match at block m, the bytes of the
\* window are exactly the bytes of block m of A (same length, same content);
\* a weak-hash hit whose strong hash differs is reported as no match.
C14_NoFalseMatch ==
    /\ JustMatched => FrameBytes(window) = BlockOfA(last_matching_block_idx)
    /\ WeakHitOnly =>
           find_match(delta, digest(hasher), window, last_matching_block_idx) = None

\* a match reported while A has two different blocks under one weak hash
C14_Witness == JustMatched /\ CollidingBlocks /\ window.bytes_read > 0


\* ------------------------------------------------------------------------
\* C15: no input is rejected

\* the scan of B is under way or over
Scanning == pc \in {"loop", "jump", "done"}

\* the window on which move_forword calls tail and head: after the rotation
\* when one is due
Rotated(w) == IF w.offset >= Len(w.front) /\ w.back # <<>> THEN read_next(w) ELSE w

\* bytes_read - ins_buffer.len(), the offset of an Insert
InsertOffsetOk == window.bytes_read >= Len(ins_buffer)

\* front.len() + back.len() - offset, Window::frame_size
FrameSizeOk(w) == Len(w.front) + Len(w.back) >= w.offset

\* offset + block_size - front.len(), Window::head
HeadIdxOk(w) == w.offset + w.block_size >= Len(w.front)

\* original_buf_len - (last_matching_block_idx + 1) * block_size, the final Remove
FinalRemoveOk ==
    last_matching_block_idx + 1 < block_count(signature) =>
        delta.sig.original_buffer_len >=
            (last_matching_block_idx + 1) * delta.sig.block_size

\* C15: for every block size >= 1 and every A and B (empty B, B shorter than
\* a block and empty A included) diff does not panic: the only panic is the
\* rejected zero block size, the block jump never stalls, and none of the
\* four unsigned subtractions of the scan has a negative result.
C15_NoInputRejected ==
    /\ pc = "panic" => block_size = 0
    /\ pc = "jump" => ~jump_over(window, jump_i)
    /\ Scanning =>
         /\ InsertOffsetOk
         /\ FrameSizeOk(window) /\ FrameSizeOk(Rotated(window))
         /\ HeadIdxOk(window) /\ HeadIdxOk(Rotated(window))
         /\ FinalRemoveOk

\* a finished diff of a B shorter than one block against the empty A
C15_Witness ==
    /\ Done /\ bufA = <<>>
    /\ bufB # <<>> /\ Len(bufB) < delta.sig.block_size
    /\ Ops = <<Insert(0, bufB)>>


\* ------------------------------------------------------------------------
\* C16: a shared block-aligned prefix followed by a changed tail

\* the blocks of A have pairwise distinct weak hashes
DistinctWeak ==
    \A i, j \in 1 .. Len(signature.blocks) :
        i # j => signature.blocks[i].weak_hash # signature.blocks[j].weak_hash

\* B[p .. min(p + block_size, |B|)]
WindowAt(p) == SubSeq(bufB, p + 1, Min(p + delta.sig.block_size, Len(bufB)))

BlocksOfA == {BlockOfA(m) : m \in 0 .. block_count(signature) - 1}

\* A and B share their first k blocks and no later window of B is a block of A
SharedPrefix(k) ==
    LET n == k * delta.sig.block_size
    IN  /\ n <= Min(Len(bufA), Len(bufB))
        /\ SubSeq(bufB, 1, n) = SubSeq(bufA, 1, n)
        /\ \A p \in n .. Len(bufB) - 1 : WindowAt(p) \notin BlocksOfA

\* Insert of the tail of B if any, then Remove of the rest of A if any
TailScript(k) ==
    LET n == k * delta.sig.block_size
    IN  (IF n < Len(bufB) THEN <<Insert(n, SubSeq(bufB, n + 1, Len(bufB)))>> ELSE <<>>)
        \o (IF n < Len(bufA) THEN <<Remove(Len(bufB), Len(bufA) - n)>> ELSE <<>>)

\* C16: when the blocks of A have pairwise distinct weak hashes, A and B
\* agree on their first k blocks and no window of B from k * block_size on
\* equals a block of A, the script is Insert{k * bs, B[k * bs ..]} if that is
\* non-empty, then Remove{|B|, |A| - k * bs} if that is non-zero, nothing else.
C16_PrefixThenTail ==
    (Done /\ DistinctWeak) =>
        \A k \in 0 .. Len(bufB) : SharedPrefix(k) => Ops = TailScript(k)

\* at least one shared block, then both the Insert and the Remove
C16_Witness ==
    /\ Done /\ DistinctWeak
    /\ \E k \in 1 .. Len(bufB) : SharedPrefix(k) /\ Len(TailScript(k)) = 2


\* ------------------------------------------------------------------------
\* C17: whole blocks deleted from the middle

\* B is A without its blocks i .. j - 1
BlocksDeleted(i, j) ==
    LET bs == delta.sig.block_size
    IN  /\ 0 <= i /\ i < j /\ j < block_count(signature)
        /\ bufB = SubSeq(bufA, 1, i * bs) \o SubSeq(bufA, j * bs + 1, Len(bufA))

\* C17: when the blocks of A have pairwise distinct weak hashes and B is A
\* with the contiguous blocks i .. j - 1 removed (0 <= i < j < number of
\* blocks), the script is the single Remove{i * bs, (j - i) * bs}.
C17_BlocksDeleted ==
    (Done /\ DistinctWeak) =>
        \A i, j \in 0 .. block_count(signature) :
            BlocksDeleted(i, j) =>
                Ops = <<Remove(i * delta.sig.block_size, (j - i) * delta.sig.block_size)>>

\* blocks deleted between a kept block before and a kept block after
C17_Witness ==
    /\ Done /\ DistinctWeak
    /\ \E i, j \in 1 .. block_count(signature) : BlocksDeleted(i, j)


\* ------------------------------------------------------------------------
\* C18: the matched block ordinals are strictly increasing

\* a step of the match branch
MatchStep == pc = "loop" /\ pc' = "jump"

\* last_matching_block_idx is -1 at the first probe, changes only on a
\* match, and a match sets it to a greater ordinal of a block of A
OrdinalStep ==
    /\ (pc = "diff" /\ pc' = "loop") => last_matching_block_idx' = 0 - 1
    /\ last_matching_block_idx' # last_matching_block_idx => MatchStep
    /\ MatchStep => /\ last_matching_block_idx' > last_matching_block_idx
                    /\ last_matching_block_idx' < block_count(signature)

\* the contents of the blocks of A with ordinals lo .. hi
BlocksBetween(lo, hi) == {BlockOfA(m) : m \in lo .. hi}

\* a probe whose window equals a block of A with an ordinal <= the last matched
StaleWindow ==
    /\ pc = "loop" /\ has_frame(window)
    /\ FrameBytes(window) \in BlocksBetween(0, last_matching_block_idx)

\* ... and equals no block of A with a greater ordinal
StaleWindowOnly ==
    /\ StaleWindow
    /\ FrameBytes(window) \notin
           BlocksBetween(last_matching_block_idx + 1, block_count(signature) - 1)

\* the probe finds no match, so the byte leaving the window joins ins_buffer
Unmatched == find_match(delta, digest(hasher), window, last_matching_block_idx) = None

\* A = X ++ Y and B = Y ++ X for two different whole blocks X and Y
Swapped ==
    LET bs == delta.sig.block_size
    IN  /\ Len(bufA) = 2 * bs
        /\ SubSeq(bufA, 1, bs) # SubSeq(bufA, bs + 1, 2 * bs)
        /\ bufB = SubSeq(bufA, bs + 1, 2 * bs) \o SubSeq(bufA, 1, bs)

\* Remove for X, then Insert of X
SwapScript ==
    LET bs == delta.sig.block_size
    IN  <<Remove(0, bs), Insert(bs, SubSeq(bufA, 1, bs))>>

SliceOfB(from, to) == SubSeq(bufB, from + 1, to)

\* the operation is an Insert whose buffer is the run of B at its offset
QuotesB(op) ==
    op.kind = "Insert" =>
        /\ op.offset + Len(op.buffer) <= Len(bufB)
        /\ op.buffer = SliceOfB(op.offset, op.offset + Len(op.buffer))

\* C19: every Insert{offset, buffer} emitted satisfies
\* offset + |buffer| <= |B| and buffer = B[offset .. offset + |buffer|];
\* at every point of the scan ins_buffer is the run of B that ends at
\* bytes_read.
C19_InsertQuotesB ==
    Scanning =>
        /\ \A i \in 1 .. Len(Ops) : QuotesB(Ops[i])
        /\ window.bytes_read <= Len(bufB)
        /\ ins_buffer = SliceOfB(window.bytes_read - Len(ins_buffer), window.bytes_read)

\* an Insert strictly inside B, between two matched blocks
C19_Witness ==
    /\ Done
    /\ \E i \in 1 .. Len(Ops) :
          /\ Ops[i].kind = "Insert"
          /\ Ops[i].offset > 0
          /\ Ops[i].offset + Len(Ops[i].buffer) < Len(bufB)


\* ------------------------------------------------------------------------
\* C20: the hasher tracks the window

\* a probe of the main loop: `while window.has_frame()` is being evaluated
Probe == pc = "loop"

\* the next step calls window.move_forword()
AboutToMove == (pc = "loop" /\ has_frame(window)) \/ pc = "jump"

\* C20: at every probe of the main loop (after priming, after every
\* single-byte advance, after every block jump) the count of the hasher is
\* the number of bytes of the current frame and its digest is weak_hash of
\* those bytes in order; remove is never called on a hasher whose count is 0.
C20_HasherTracksWindow ==
    /\ Probe => /\ hasher.count = Len(FrameBytes(window))
                /\ digest(hasher) = weak_hash(FrameBytes(window))
    /\ (AboutToMove /\ move_forword(window).tail # None) => hasher.count > 0

\* a probe after single-byte advances, the frame spanning front and back
C20_Witness ==
    /\ Probe /\ ins_buffer # <<>>
    /\ frame(window)[1] # <<>> /\ frame(window)[2] # <<>>


\* ------------------------------------------------------------------------
\* The Window on its own (window.rs): Window::new, then move_forword any
\* number of times, also after the buffer is exhausted.
\*   pc = "window_new"  nothing constructed yet
\*   pc = "window"      Window::new has returned
\*   pc = "moved"       the last call was move_forword, probe holds the
\*                      window before the call and the pair it returned

InitWindow ==
    /\ pc = "window_new"
    /\ api = "none" /\ bufA = <<>>
    /\ bufB \in SmallB
    /\ block_size \in 0 .. MaxBlockSize
    /\ Idle /\ NoHashRun /\ NoSizeRun

windowVars == <<api, block_size, bufA, bufB, signature, delta, hasher, ins_buffer,
                last_matching_block_idx, jump_i, fed, rolled, len, bsize>>

window_new ==
    /\ pc = "window_new"
    /\ window' = Window_new(bufB, block_size)
    /\ pc' = "window"
    /\ UNCHANGED <<windowVars, probe>>

window_move_forword ==
    /\ pc \in {"window", "moved"}
    /\ LET m == move_forword(window)
       IN  /\ window' = m.window
           /\ probe' = [before |-> window, tail |-> m.tail, head |-> m.head]
    /\ pc' = "moved"
    /\ UNCHANGED windowVars

NextWindow ==
    \/ window_new
    \/ window_move_forword

SpecWindow == InitWindow /\ [][NextWindow]_vars

\* a Window exists
HasWindow == pc \in {"window", "moved"}

\* ------------------------------------------------------------------------
\* C21: the cursor invariant of the window

\* C21: in every state of a Window reachable from Window::new by
\* move_forword calls, 0 <= offset <= front.len, front.len <= block_size,
\* back.len <= block_size, and back is non-empty only if front has exactly
\* block_size bytes; hence front.len + back.len - offset does not underflow.
C21_CursorInvariant ==
    HasWindow =>
        /\ 0 <= window.offset /\ window.offset <= Len(window.front)
        /\ Len(window.front) <= window.block_size
        /\ Len(window.back) <= window.block_size
        /\ window.back # <<>> => Len(window.front) = window.block_size
        /\ FrameSizeOk(window)

\* after a rotation, with a refilled back buffer and the cursor inside front
C21_Witness ==
    /\ pc = "moved"
    /\ window.bytes_read > window.block_size
    /\ window.back # <<>>
    /\ window.offset > 0


\* ------------------------------------------------------------------------
\* C22: the length of the frame and frame_size

\* C22: in every reachable Window state the total length of the two slices
\* returned by frame() is exactly frame_size() = front.len + back.len - offset.
C22_FrameLength ==
    HasWindow => Len(FrameBytes(window)) = frame_size(window)

\* ------------------------------------------------------------------------
\* C23: the end of B is a fixed point

\* front is empty, or the cursor is at the end of front and back is empty
Exhausted(w) == w.front = <<>> \/ (w.offset = Len(w.front) /\ w.back = <<>>)

\* C23: has_frame() is false exactly when the window is exhausted; then
\* frame() returns two empty slices and move_forword returns (None, None)
\* and leaves the window unchanged; whenever has_frame() is true,
\* move_forword returns a tail byte and increases bytes_read by exactly 1.
C23_EndIsFixedPoint ==
    /\ HasWindow =>
         /\ has_frame(window) <=> ~Exhausted(window)
         /\ ~has_frame(window) => frame(window) = <<<<>>, <<>>>>
    /\ pc = "moved" =>
         IF has_frame(probe.before)
         THEN /\ probe.tail # None
              /\ window.bytes_read = probe.before.bytes_read + 1
         ELSE /\ probe.tail = None /\ probe.head = None
              /\ window = probe.before

\* move_forword called on a window that has walked through a B longer than
\* one block and is exhausted
C23_Witness ==
    /\ pc = "moved"
    /\ ~has_frame(probe.before)
    /\ probe.before.bytes_read > probe.before.block_size
    /\ probe.before.block_size > 0

\* ------------------------------------------------------------------------
\* C24: the window is the block-sized view of B at bytes_read

\* b[p .. min(p + bs, |b|)]
WindowOf(b, p, bs) == SubSeq(b, p + 1, Min(p + bs, Len(b)))

\* C24: in every state reachable from Window::new(B, bs) by move_forword
\* calls the two slices of frame() concatenated are
\* B[bytes_read .. min(bytes_read + bs, |B|)]; each move_forword that
\* returns a tail returns tail = B[r] and head = B[r + bs] if r + bs < |B|
\* (None otherwise), r being bytes_read before the call.
C24_ViewOfB ==
    /\ HasWindow => FrameBytes(window) = WindowOf(bufB, window.bytes_read, window.block_size)
    /\ (pc = "moved" /\ probe.tail # None) =>
         LET r == probe.before.bytes_read
             bs == probe.before.block_size
         IN  /\ probe.tail = bufB[r + 1]
             /\ probe.head = IF r + bs < Len(bufB) THEN bufB[r + bs + 1] ELSE None

\* a move across a front/back rotation that returns both a tail and a head
C24_Witness ==
    /\ pc = "moved"
    /\ probe.before.offset = Len(probe.before.front)
    /\ probe.tail # None /\ probe.head # None


\* ------------------------------------------------------------------------
\* C25: the scan terminates having consumed all of B

\* what every step of a call changes: the position, the counter of the block
\* jump or the number of pending bytes
progress == <<pc, jump_i, Len(ins_buffer)>>

\* the calls run to completion: a step that can be taken is taken
Fairness ==
    /\ WF_progress(diff_begin)
    /\ WF_progress(diff_match)
    /\ WF_progress(diff_jump)
    /\ WF_progress(diff_no_match)
    /\ WF_progress(diff_end)

\* a Delta built over A by diff_with_block_size, Delta::diff about to run on B
InitLive ==
    /\ pc = "diff" /\ api = "diff_with_block_size"
    /\ block_size \in 1 .. MaxBlockSize
    /\ bufA \in SeqsUpTo(Byte, MaxLiveA) /\ bufB \in SeqsUpTo(Byte, MaxLiveB)
    /\ signature = calculate(with_block_size(block_size, bufA))
    /\ delta = Delta_new(to_indexed(signature))
    /\ window = Unset /\ hasher = new_hasher /\ ins_buffer = <<>>
    /\ last_matching_block_idx = None /\ jump_i = 0
    /\ NoHashRun /\ NoSizeRun

NextLive == diff_begin \/ diff_match \/ diff_jump \/ diff_no_match \/ diff_end

SpecLive == InitLive /\ [][NextLive]_vars /\ Fairness

\* a step of the main loop that moves the window: the no-match branch, or
\* one iteration of the block jump of the match branch
MoveStep == (pc = "loop" /\ pc' = "loop") \/ pc = "jump"

\* every iteration of the main loop moves the window: the no-match
\* iteration by one byte, the match iteration by at least one byte of its
\* block jump
IterationAdvances ==
    /\ MoveStep => window'.bytes_read = window.bytes_read + 1
    /\ MatchStep => ~jump_over(window', jump_i')

\* the run is over: diff has returned, or the zero block size was rejected
Returned == pc \in {"done", "panic"}

\* C25: every iteration of the main loop of Delta::diff increases bytes_read
\* by at least 1, bytes_read never exceeds |B| (so there are at most |B|
\* iterations), the loop ends, and on exit bytes_read = |B|.
C25_ScanTerminates ==
    /\ [][IterationAdvances]_progress
    /\ [](Scanning => window.bytes_read <= Len(bufB))
    /\ [](Done => window.bytes_read = Len(bufB))
    /\ <>Returned

\* a finished scan whose last iteration was a block jump cut short by the
\* end of B
C25_Witness ==
    /\ Done /\ last_matching_block_idx >= 0
    /\ jump_i > 0 /\ jump_i < window.block_size
    /\ ins_buffer = <<>>


\* ------------------------------------------------------------------------
\* Length conservation

\* the number of bytes an operation inserts or removes
OpLen(op) == IF op.kind = "Insert" THEN Len(op.buffer) ELSE op.len

\* the bytes carried by the operations ops[i ..] of kind k
RECURSIVE TotalFrom(_, _, _)
TotalFrom(ops, k, i) ==
    IF i > Len(ops) THEN 0
    ELSE (IF ops[i].kind = k THEN OpLen(ops[i]) ELSE 0) + TotalFrom(ops, k, i + 1)

Total(k) == TotalFrom(Ops, k, 1)

\* the bytes of A the scan has accounted for: the blocks up to the last match
CoveredA == Min((last_matching_block_idx + 1) * delta.sig.block_size, Len(bufA))

\* the bytes of B the scan has accounted for by an Insert, emitted or pending
InsertedB == Total("Insert") + Len(ins_buffer)

\* the ranges of B the Inserts of the script occupy do not overlap and lie in B
InsertsApart ==
    /\ \A i \in OpsOfKind("Insert") : Ops[i].offset + OpLen(Ops[i]) <= Len(bufB)
    /\ \A i, j \in OpsOfKind("Insert") :
           i < j => Ops[i].offset + OpLen(Ops[i]) <= Ops[j].offset

\* C26: between two iterations of the main loop the bytes of A up to the last
\* matched block that no Remove covers are as many as the bytes of B read so
\* far that no Insert (emitted or pending) covers: these are the matched
\* blocks and the matched windows. In the returned script the Inserts occupy
\* disjoint ranges of B, |A| - sum of Remove.len + sum of Insert lengths = |B|,
\* and the sum of Remove.len is at most |A|.
C26_LengthConservation ==
    /\ pc = "loop" =>
           /\ CoveredA - Total("Remove") = window.bytes_read - InsertedB
           /\ CoveredA >= Total("Remove")
    /\ Done =>
           /\ Len(bufA) - Total("Remove") + Total("Insert") = Len(bufB)
           /\ Total("Remove") <= Len(bufA)
           /\ InsertsApart

\* a script with a gap Remove, an Insert and matched blocks on both sides
C26_Witness ==
    /\ Done /\ Total("Remove") > 0 /\ Total("Insert") > 0
    /\ Total("Remove") < Len(bufA) /\ Total("Insert") < Len(bufB)
    /\ Len(Ops) >= 2 /\ Ops[1].kind = "Remove"


\* ------------------------------------------------------------------------
\* Emission order

\* the operations a step appends to the script
NewOps == SubSeq(delta'.ops, Len(delta.ops) + 1, Len(delta'.ops))

\* the step out of the loop, lines 219-238
EndStep == pc = "loop" /\ pc' = "done"

\* a match that finds pending bytes and skipped blocks appends the Insert of
\* the pending bytes and, right after it, the Remove at the Insert's end
MatchEmits ==
    (MatchStep /\ ins_buffer # <<>>
               /\ last_matching_block_idx' > last_matching_block_idx + 1) =>
        /\ IsPrefix(delta.ops, delta'.ops)
        /\ Len(NewOps) = 2
        /\ NewOps[1].kind = "Insert" /\ NewOps[1].buffer = ins_buffer
        /\ NewOps[2].kind = "Remove"
        /\ NewOps[2].offset = NewOps[1].offset + Len(NewOps[1].buffer)

\* after the loop at most one Insert, then at most one Remove
EndEmits ==
    EndStep =>
        /\ IsPrefix(delta.ops, delta'.ops)
        /\ Len(NewOps) <= 2
        /\ Len(NewOps) = 2 => NewOps[1].kind = "Insert" /\ NewOps[2].kind = "Remove"
        /\ (Len(NewOps) >= 1 /\ NewOps[1].kind = "Insert") => NewOps[1].buffer = ins_buffer

\* offsets never decrease along the script, and an Insert ends at or before
\* the offset of every later operation
Ordered ==
    \A i, j \in 1 .. Len(Ops) :
        i < j => /\ Ops[i].offset <= Ops[j].offset
                 /\ Ops[i].kind = "Insert" => Ops[i].offset + OpLen(Ops[i]) <= Ops[j].offset

\* C27: a match with pending unmatched bytes and a block gap appends the
\* Insert immediately before the Remove, the Remove at the Insert's offset
\* plus its length; after the loop the final Insert, if any, precedes the
\* final Remove, if any; and at every point of the diff the offsets of the
\* script are non-decreasing in emission order across both kinds, every
\* Insert ending at or before the offset of every later operation.
C27_EmissionOrder ==
    /\ [][MatchEmits /\ EndEmits]_vars
    /\ [](Scanning => Ordered)

\* a match has just appended an Insert and a Remove to a non-empty script
C27_Witness ==
    /\ JustMatched /\ Len(Ops) >= 3
    /\ Ops[Len(Ops) - 1].kind = "Insert" /\ Ops[Len(Ops)].kind = "Remove"


\* ------------------------------------------------------------------------
\* No empty operation

\* the Removes among the operations a step appends
NewRemoves == {i \in 1 .. Len(NewOps) : NewOps[i].kind = "Remove"}

\* a Remove appended on a match takes a positive number of whole blocks
GapRemove ==
    MatchStep =>
        \A i \in NewRemoves :
            /\ NewOps[i].len >= delta.sig.block_size
            /\ NewOps[i].len % delta.sig.block_size = 0

\* a Remove appended after the loop takes the non-empty rest of A behind the
\* last matched block
FinalRemove ==
    EndStep =>
        \A i \in NewRemoves :
            /\ CoveredA < Len(bufA)
            /\ NewOps[i].len = Len(bufA) - CoveredA

\* C28: at every point of the diff each Insert of the script has a non-empty
\* buffer and each Remove has len > 0; a Remove appended on a match is a
\* positive multiple of block_size, and the Remove appended after the loop
\* is the non-empty tail of A behind the last matched block.
C28_NoEmptyOp ==
    /\ [](Scanning => \A i \in 1 .. Len(Ops) : ~IsEmptyOp(Ops[i]))
    /\ [][GapRemove /\ FinalRemove]_vars

\* a script with a gap Remove, an Insert and the final Remove
C28_Witness ==
    /\ Done /\ Len(Ops) >= 3
    /\ Ops[1].kind = "Remove" /\ Ops[1].len >= delta.sig.block_size
    /\ Ops[Len(Ops) - 1].kind = "Insert"
    /\ Ops[Len(Ops)].kind = "Remove" /\ Ops[Len(Ops)].len = Len(bufA) - CoveredA


\* ------------------------------------------------------------------------
\* Two calls of Delta::diff on one Delta

\* Delta::new(signature.to_indexed()) over A, the first diff about to run on B
InitAgain ==
    /\ pc = "diff" /\ api = "Delta::diff"
    /\ block_size \in 1 .. MaxBlockSize
    /\ bufA \in SeqsUpTo(Byte, MaxAgainA) /\ bufB \in SeqsUpTo(Byte, MaxAgainB)
    /\ signature = calculate(with_block_size(block_size, bufA))
    /\ delta = Delta_new(to_indexed(signature))
    /\ window = Unset /\ hasher = new_hasher /\ ins_buffer = <<>>
    /\ last_matching_block_idx = None /\ jump_i = 0
    /\ NoHashRun /\ NoSizeRun

\* the first diff has returned
FirstDone == pc = "done" /\ probe = Unset

\* delta.diff(buf) is called again, on the Delta the first call has left
diff_again ==
    /\ FirstDone
    /\ \E buf \in SeqsUpTo(Byte, MaxAgainB) : bufB' = buf
    /\ probe' = [before |-> delta, buf |-> bufB]
    /\ pc' = "diff"
    /\ UNCHANGED <<api, block_size, bufA, signature, delta, window, hasher, ins_buffer,
                   last_matching_block_idx, jump_i, fed, rolled, len, bsize>>

NextAgain ==
    \/ diff_begin
    \/ diff_match
    \/ diff_jump
    \/ diff_no_match
    \/ diff_end
    \/ diff_again

SpecAgain == InitAgain /\ [][NextAgain]_vars

\* the second diff is running or has returned
Again == probe # Unset

\* a step leaves the indexed signature alone and only appends operations
OnlyAppends == delta'.sig = delta.sig /\ IsPrefix(delta.ops, delta'.ops)

\* C29: no step of Delta::diff changes the Delta's indexed signature, and
\* every step leaves the operations already in the list where they are,
\* appending at most; a fresh Delta holds, when its first diff returns,
\* exactly the script of that diff, and when a second diff on the same
\* Delta returns, the list is the first script followed by the script of
\* the second buffer, over the same indexed signature.
C29_DiffOnlyAppends ==
    /\ [][OnlyAppends]_vars
    /\ [](FirstDone => Ops = diff_with_block_size(block_size, bufA, bufB))
    /\ []((Done /\ Again) =>
             /\ delta.sig = probe.before.sig
             /\ probe.before.ops = diff_with_block_size(block_size, bufA, probe.buf)
             /\ Ops = probe.before.ops \o diff_with_block_size(block_size, bufA, bufB))

\* the second diff has returned, and both diffs appended operations
C29_Witness ==
    /\ Done /\ Again
    /\ probe.before.ops # <<>> /\ Len(Ops) > Len(probe.before.ops)

====
